---- MODULE Spec2Model ----
(***************************************************************************)
(* Model of the joke query functions of the `ha` package                   *)
(* (src/ha/__init__.py): search_jokes, random_joke_from_dataset,           *)
(* top_jokes_from_dataset, joke_count_by_dataset, search_jokes_by_score    *)
(* and all_jokes_sorted_by_score, all reading the module-level dict        *)
(* joke_datasets.                                                          *)
(*                                                                         *)
(* A str is a sequence of one-character strings, a list is a sequence, a   *)
(* dict is a function together with the insertion order of its keys.       *)
(***************************************************************************)
EXTENDS Integers, Sequences, FiniteSets, TLC

VARIABLES
    joke_datasets,   \* the dict: dataset name -> list of jokes
    key_order,       \* insertion (= iteration) order of joke_datasets' keys
    call,            \* the call in progress or just finished: function name and arguments
    result,          \* the value the call returned
    err              \* the exception the call raised

vars == <<joke_datasets, key_order, call, result, err>>

----------------------------------------------------------------------------
(* Bounds and input sets *)

MaxJokes == 3        \* jokes loaded into the store, all datasets together
MaxTopN == 3         \* largest explicit top_n tried (besides the default)
DefaultTopN == 10    \* top_n=10

StoreNames == {"reddit_jokes", "stupidstuff"}
AllNames == StoreNames \cup {"missing"}

KeyOrders ==
    { <<>>, <<"reddit_jokes">>, <<"stupidstuff">>,
      <<"reddit_jokes", "stupidstuff">>, <<"stupidstuff", "reddit_jokes">> }

\* body and score of the jokes a dataset may be loaded with
JokePool ==
    { [body |-> <<"A", "b">>, score |-> 1],
      [body |-> <<"A", "b">>, score |-> 0],
      [body |-> <<"b", "a">>, score |-> 1],
      [body |-> <<"b", "a">>, score |-> 0],
      [body |-> <<>>,         score |-> -1] }

Keywords == { <<>>, <<"a">>, <<"a", "B">>, <<"b", "b">> }
MinScores == { -1, 0, 1, 2 }
None == "None"
DatasetArgs ==
    { None, <<>>, <<"reddit_jokes">>, <<"missing">>,
      <<"missing", "stupidstuff", "reddit_jokes">> }
TopNs == ((0 - 2) .. MaxTopN) \cup {DefaultTopN}

----------------------------------------------------------------------------
(* Python values *)

Range(s) == { s[i] : i \in DOMAIN s }

NoError == [type |-> "None"]
NoResult == "NoResult"
Idle == [name |-> "idle"]

\* ValueError(f"No dataset found with the name {dataset_name}")
ValueError(dataset_name) ==
    [type |-> "ValueError", message |-> "No dataset found with the name", dataset_name |-> dataset_name]

\* random.choice of an empty sequence
IndexError == [type |-> "IndexError"]

EmptyDict == [k \in {} |-> <<>>]

DictSet(d, k, v) == [x \in (DOMAIN d) \cup {k} |-> IF x = k THEN v ELSE d[x]]

\* str.lower(), one character
LowerChar(c) == IF c = "A" THEN "a" ELSE IF c = "B" THEN "b" ELSE c

\* str.lower()
Lower(s) == [i \in 1..Len(s) |-> LowerChar(s[i])]

\* needle in hay, for two str
In(needle, hay) ==
    \E off \in 0..(Len(hay) - Len(needle)) :
        \A i \in 1..Len(needle) : hay[off + i] = needle[i]

\* jokes[:top_n]
SliceTo(jokes, top_n) ==
    IF top_n >= 0
    THEN SubSeq(jokes, 1, IF top_n < Len(jokes) THEN top_n ELSE Len(jokes))
    ELSE SubSeq(jokes, 1, IF Len(jokes) + top_n > 0 THEN Len(jokes) + top_n ELSE 0)

\* inserts joke into a list sorted by score, behind the jokes it does not precede
RECURSIVE InsertByScore(_, _, _)
InsertByScore(joke, sortedJokes, reverse) ==
    IF sortedJokes = <<>> THEN <<joke>>
    ELSE IF (IF reverse THEN joke.score > Head(sortedJokes).score
                        ELSE joke.score < Head(sortedJokes).score)
         THEN <<joke>> \o sortedJokes
         ELSE <<Head(sortedJokes)>> \o InsertByScore(joke, Tail(sortedJokes), reverse)

RECURSIVE SortedFrom(_, _, _)
SortedFrom(jokes, acc, reverse) ==
    IF jokes = <<>> THEN acc
    ELSE SortedFrom(Tail(jokes), InsertByScore(Head(jokes), acc, reverse), reverse)

\* a sort that is not stable when reversed: sort ascending, then reverse the list
UnstableSortedByScore(jokes, reverse) ==
    LET asc == SortedFrom(jokes, <<>>, FALSE)
    IN  IF reverse THEN [i \in 1..Len(asc) |-> asc[Len(asc) + 1 - i]] ELSE asc

\* sorted(jokes, key=lambda x: x['score'], reverse=reverse): a new list, stable
\* in both directions
SortedByScore(jokes, reverse) == SortedFrom(jokes, <<>>, reverse)

----------------------------------------------------------------------------
(* The store *)

\* a dataset as loaded: the id of a joke is unique within its dataset
Load(pooled) ==
    [i \in 1..Len(pooled) |-> [id |-> i, body |-> pooled[i].body, score |-> pooled[i].score]]

Init ==
    /\ key_order \in KeyOrders
    /\ \E sizes \in [Range(key_order) -> 0..MaxJokes] :
           /\ (\A a, b \in Range(key_order) : a # b => sizes[a] + sizes[b] <= MaxJokes)
           /\ \E first \in [1..(IF "reddit_jokes" \in DOMAIN sizes THEN sizes["reddit_jokes"] ELSE 0) -> JokePool],
                 second \in [1..(IF "stupidstuff" \in DOMAIN sizes THEN sizes["stupidstuff"] ELSE 0) -> JokePool] :
                  joke_datasets =
                      [n \in Range(key_order) |->
                          IF n = "reddit_jokes" THEN Load(first) ELSE Load(second)]
    /\ call = Idle
    /\ result = NoResult
    /\ err = NoError

----------------------------------------------------------------------------
(* The queries *)

\* [joke for joke in jokes if keyword in joke['body'].lower()]: the keyword
\* is not lower-cased
RECURSIVE FilteredJokesKeywordAsIs(_, _)
FilteredJokesKeywordAsIs(jokes, keyword) ==
    IF jokes = <<>> THEN <<>>
    ELSE (IF In(keyword, Lower(Head(jokes).body)) THEN <<Head(jokes)>> ELSE <<>>)
             \o FilteredJokesKeywordAsIs(Tail(jokes), keyword)

\* [joke for joke in jokes if keyword.lower() in joke['body'].lower()]
RECURSIVE FilteredJokes(_, _)
FilteredJokes(jokes, keyword) ==
    IF jokes = <<>> THEN <<>>
    ELSE (IF In(Lower(keyword), Lower(Head(jokes).body)) THEN <<Head(jokes)>> ELSE <<>>)
             \o FilteredJokes(Tail(jokes), keyword)

\* the list comprehension with score > min_score
RECURSIVE FilteredJokesAboveScore(_, _, _)
FilteredJokesAboveScore(jokes, keyword, min_score) ==
    IF jokes = <<>> THEN <<>>
    ELSE (IF In(Lower(keyword), Lower(Head(jokes).body)) /\ Head(jokes).score > min_score
          THEN <<Head(jokes)>> ELSE <<>>)
             \o FilteredJokesAboveScore(Tail(jokes), keyword, min_score)

\* [joke for joke in jokes if keyword.lower() in joke['body'].lower()
\*                            and joke['score'] >= min_score]
RECURSIVE FilteredJokesByScore(_, _, _)
FilteredJokesByScore(jokes, keyword, min_score) ==
    IF jokes = <<>> THEN <<>>
    ELSE (IF In(Lower(keyword), Lower(Head(jokes).body)) /\ Head(jokes).score >= min_score
          THEN <<Head(jokes)>> ELSE <<>>)
             \o FilteredJokesByScore(Tail(jokes), keyword, min_score)

\* if datasets is None: datasets = joke_datasets.keys()
DatasetsOrAll(datasets) == IF datasets = None THEN key_order ELSE datasets

\* the loop of search_jokes without `if filtered_jokes:`
RECURSIVE SearchLoopKeepingEmpty(_, _, _)
SearchLoopKeepingEmpty(keyword, datasets, acc) ==
    IF datasets = <<>> THEN acc
    ELSE LET dataset_name == Head(datasets)
         IN  SearchLoopKeepingEmpty(keyword, Tail(datasets),
                 IF dataset_name \in DOMAIN joke_datasets
                 THEN DictSet(acc, dataset_name, FilteredJokes(joke_datasets[dataset_name], keyword))
                 ELSE acc)

\* for dataset_name in datasets: ... result[dataset_name] = filtered_jokes
RECURSIVE SearchLoop(_, _, _)
SearchLoop(keyword, datasets, acc) ==
    IF datasets = <<>> THEN acc
    ELSE LET dataset_name == Head(datasets)
         IN  SearchLoop(keyword, Tail(datasets),
                 IF dataset_name \in DOMAIN joke_datasets
                 THEN LET filtered_jokes == FilteredJokes(joke_datasets[dataset_name], keyword)
                      IN  IF filtered_jokes # <<>>
                          THEN DictSet(acc, dataset_name, filtered_jokes)
                          ELSE acc
                 ELSE acc)

\* the dict search_jokes(keyword, datasets) returns
SearchJokes(keyword, datasets) == SearchLoop(keyword, DatasetsOrAll(datasets), EmptyDict)

RECURSIVE SearchByScoreLoop(_, _, _, _)
SearchByScoreLoop(keyword, min_score, datasets, acc) ==
    IF datasets = <<>> THEN acc
    ELSE LET dataset_name == Head(datasets)
         IN  SearchByScoreLoop(keyword, min_score, Tail(datasets),
                 IF dataset_name \in DOMAIN joke_datasets
                 THEN LET filtered_jokes ==
                              FilteredJokesByScore(joke_datasets[dataset_name], keyword, min_score)
                      IN  IF filtered_jokes # <<>>
                          THEN DictSet(acc, dataset_name, filtered_jokes)
                          ELSE acc
                 ELSE acc)

\* the dict search_jokes_by_score(keyword, min_score, datasets) returns
SearchJokesByScore(keyword, min_score, datasets) ==
    SearchByScoreLoop(keyword, min_score, DatasetsOrAll(datasets), EmptyDict)

\* random.choice that never draws the last element
RandomChoiceButLast(jokes) == { jokes[i] : i \in 1..(Len(jokes) - 1) }

\* the values random.choice(jokes) may return, jokes not empty
RandomChoice(jokes) == { jokes[i] : i \in 1..Len(jokes) }

\* a dict comprehension that leaves out the empty datasets
JokeCountNonEmpty(store) ==
    [dataset_name \in { n \in DOMAIN store : store[n] # <<>> } |-> Len(store[dataset_name])]

\* {dataset_name: len(jokes) for dataset_name, jokes in joke_datasets.items()}
JokeCount(store) == [dataset_name \in DOMAIN store |-> Len(store[dataset_name])]

\* all_jokes = []; for jokes in joke_datasets.values(): all_jokes.extend(jokes)
RECURSIVE AllJokes(_)
AllJokes(order) ==
    IF order = <<>> THEN <<>>
    ELSE joke_datasets[Head(order)] \o AllJokes(Tail(order))

\* joke_datasets[dataset_name].sort(...): sorts the stored list in place
StoreSortedInPlace(dataset_name, reverse) ==
    [joke_datasets EXCEPT ![dataset_name] = SortedByScore(joke_datasets[dataset_name], reverse)]

\* the store after sorted(joke_datasets[dataset_name], ...): sorted() builds a
\* new list and leaves its argument as it is
StoreAfterSorted(dataset_name, reverse) == joke_datasets

Called(name, keyword, min_score, datasets, dataset_name, top_n, reverse) ==
    [name |-> name, keyword |-> keyword, min_score |-> min_score, datasets |-> datasets,
     dataset_name |-> dataset_name, top_n |-> top_n, reverse |-> reverse]

search_jokes(keyword, datasets) ==
    /\ call = Idle
    /\ call' = Called("search_jokes", keyword, None, datasets, None, None, None)
    /\ result' = SearchJokes(keyword, datasets)
    /\ err' = NoError
    /\ UNCHANGED <<joke_datasets, key_order>>

\* random_joke_from_dataset that returns None for a name it does not know
random_joke_or_none(dataset_name) ==
    /\ call = Idle
    /\ call' = Called("random_joke_from_dataset", None, None, None, dataset_name, None, None)
    /\ IF dataset_name \in DOMAIN joke_datasets /\ joke_datasets[dataset_name] # <<>>
       THEN /\ result' \in RandomChoice(joke_datasets[dataset_name])
            /\ err' = NoError
       ELSE /\ result' = None
            /\ err' = NoError
    /\ UNCHANGED <<joke_datasets, key_order>>

random_joke_from_dataset(dataset_name) ==
    /\ call = Idle
    /\ call' = Called("random_joke_from_dataset", None, None, None, dataset_name, None, None)
    /\ IF dataset_name \in DOMAIN joke_datasets
       THEN IF joke_datasets[dataset_name] = <<>>
            THEN /\ result' = NoResult
                 /\ err' = IndexError
            ELSE /\ result' \in RandomChoice(joke_datasets[dataset_name])
                 /\ err' = NoError
       ELSE /\ result' = NoResult
            /\ err' = ValueError(dataset_name)
    /\ UNCHANGED <<joke_datasets, key_order>>

top_jokes_from_dataset(dataset_name, top_n) ==
    /\ call = Idle
    /\ call' = Called("top_jokes_from_dataset", None, None, None, dataset_name, top_n, None)
    /\ IF dataset_name \in DOMAIN joke_datasets
       THEN LET jokes == SortedByScore(joke_datasets[dataset_name], TRUE)
            IN  /\ result' = SliceTo(jokes, top_n)
                /\ err' = NoError
                /\ joke_datasets' = StoreAfterSorted(dataset_name, TRUE)
       ELSE /\ result' = NoResult
            /\ err' = ValueError(dataset_name)
            /\ joke_datasets' = joke_datasets
    /\ UNCHANGED key_order

joke_count_by_dataset ==
    /\ call = Idle
    /\ call' = Called("joke_count_by_dataset", None, None, None, None, None, None)
    /\ result' = JokeCount(joke_datasets)
    /\ err' = NoError
    /\ UNCHANGED <<joke_datasets, key_order>>

search_jokes_by_score(keyword, min_score, datasets) ==
    /\ call = Idle
    /\ call' = Called("search_jokes_by_score", keyword, min_score, datasets, None, None, None)
    /\ result' = SearchJokesByScore(keyword, min_score, datasets)
    /\ err' = NoError
    /\ UNCHANGED <<joke_datasets, key_order>>

all_jokes_sorted_by_score(reverse) ==
    /\ call = Idle
    /\ call' = Called("all_jokes_sorted_by_score", None, None, None, None, None, reverse)
    /\ result' = SortedByScore(AllJokes(key_order), reverse)
    /\ err' = NoError
    /\ UNCHANGED <<joke_datasets, key_order>>

\* the call is over: the caller has its value or its exception, the frame is gone
Return ==
    /\ call # Idle
    /\ call' = Idle
    /\ result' = NoResult
    /\ err' = NoError
    /\ UNCHANGED <<joke_datasets, key_order>>

Next ==
    \/ \E keyword \in Keywords, datasets \in DatasetArgs : search_jokes(keyword, datasets)
    \/ \E dataset_name \in AllNames : random_joke_from_dataset(dataset_name)
    \/ \E dataset_name \in AllNames, top_n \in TopNs : top_jokes_from_dataset(dataset_name, top_n)
    \/ joke_count_by_dataset
    \/ \E keyword \in Keywords, min_score \in MinScores, datasets \in DatasetArgs :
           search_jokes_by_score(keyword, min_score, datasets)
    \/ \E reverse \in BOOLEAN : all_jokes_sorted_by_score(reverse)
    \/ Return

Spec == Init /\ [][Next]_vars

----------------------------------------------------------------------------
(* Properties *)

IsCall(name) == call.name = name

\* the list a returned dict holds for a dataset; no key, no records
ResultFor(dataset_name) ==
    IF dataset_name \in DOMAIN result THEN result[dataset_name] ELSE <<>>

\* the search predicate: the lower-cased body contains the lower-cased keyword
Matches(keyword, joke) == In(Lower(keyword), Lower(joke.body))

\* out is a subsequence of jokes, in the order of jokes (the ids are the positions)
IsSubsequenceOf(out, jokes) ==
    /\ \A i \in DOMAIN out : out[i].id \in DOMAIN jokes /\ out[i] = jokes[out[i].id]
    /\ \A i, j \in DOMAIN out : i < j => out[i].id < out[j].id

\* C1: search(k, [D]) for a dataset D of the store returns for D exactly the
\* records of D whose lower-cased body contains the lower-cased keyword: every
\* returned record satisfies the predicate, none that satisfies it is left
\* out, and the records keep the relative order they have in D.
C1_SearchReturnsExactlyTheMatches ==
    (/\ IsCall("search_jokes")
     /\ call.datasets # None
     /\ Len(call.datasets) = 1
     /\ call.datasets[1] \in DOMAIN joke_datasets)
    => LET jokes == joke_datasets[call.datasets[1]]
           out == ResultFor(call.datasets[1])
       IN  /\ IsSubsequenceOf(out, jokes)
           /\ \A i \in DOMAIN out : Matches(call.keyword, out[i])
           /\ \A j \in DOMAIN jokes :
                  Matches(call.keyword, jokes[j]) => \E i \in DOMAIN out : out[i] = jokes[j]

\* a search of one dataset of three jokes with a keyword in another case than
\* the bodies: the first and the third joke are returned, the second is not
C1_Witness ==
    /\ IsCall("search_jokes")
    /\ call.datasets # None
    /\ call.datasets = <<"reddit_jokes">>
    /\ call.keyword = <<"a", "B">>
    /\ "reddit_jokes" \in DOMAIN joke_datasets
    /\ Len(joke_datasets["reddit_jokes"]) = 3
    /\ Len(ResultFor("reddit_jokes")) = 2
    /\ ResultFor("reddit_jokes")[1].id = 1
    /\ ResultFor("reddit_jokes")[2].id = 3

C3_SearchKeysAreTheDatasetsWithMatches ==
    IsCall("search_jokes")
    => /\ err = NoError
       /\ DOMAIN result =
              { n \in Range(IF call.datasets = None THEN key_order ELSE call.datasets) :
                    /\ n \in DOMAIN joke_datasets
                    /\ \E j \in DOMAIN joke_datasets[n] : Matches(call.keyword, joke_datasets[n][j]) }
       /\ \A d \in DOMAIN result : result[d] # <<>>

\* a search over an unknown name, a dataset with jokes none of which matches
\* and a dataset with a match: only the last is a key
C3_Witness ==
    /\ IsCall("search_jokes")
    /\ call.datasets # None
    /\ call.datasets = <<"missing", "stupidstuff", "reddit_jokes">>
    /\ DOMAIN joke_datasets = StoreNames
    /\ joke_datasets["stupidstuff"] # <<>>
    /\ err = NoError
    /\ DOMAIN result = {"reddit_jokes"}

Min(a, b) == IF a < b THEN a ELSE b

\* C4: for a dataset D of the store and n >= 0, topN(D, n) is the first
\* min(n, |D|) records of the stable descending sort of D: that many records of
\* D, scores non-increasing, no record left out scores higher than a returned
\* one, and records of equal score are in the order they have in D (a left out
\* record of the score of a returned one comes later in D).
C4_TopNIsPrefixOfStableSort ==
    (/\ IsCall("top_jokes_from_dataset")
     /\ call.dataset_name \in DOMAIN joke_datasets
     /\ call.top_n >= 0)
    => LET jokes == joke_datasets[call.dataset_name]
           returned == { result[i].id : i \in DOMAIN result }
       IN  /\ err = NoError
           /\ Len(result) = Min(call.top_n, Len(jokes))
           /\ \A i \in DOMAIN result : result[i].id \in DOMAIN jokes /\ result[i] = jokes[result[i].id]
           /\ \A i, j \in DOMAIN result :
                  i < j => \/ result[i].score > result[j].score
                           \/ result[i].score = result[j].score /\ result[i].id < result[j].id
           /\ \A j \in (DOMAIN jokes) \ returned : \A i \in DOMAIN result :
                  \/ jokes[j].score < result[i].score
                  \/ jokes[j].score = result[i].score /\ result[i].id < j

\* the top 2 of three jokes scored 0, 1, 0: the second, then the first
C4_Witness ==
    /\ IsCall("top_jokes_from_dataset")
    /\ call.dataset_name \in DOMAIN joke_datasets
    /\ call.top_n = 2
    /\ Len(joke_datasets[call.dataset_name]) = 3
    /\ joke_datasets[call.dataset_name][1].score = joke_datasets[call.dataset_name][3].score
    /\ Len(result) = 2
    /\ result[1].id = 2
    /\ result[2].id = 1

\* C5: for a name that is no key of the store, randomFromDataset and topN fail
\* with the error that names the dataset and return nothing; for a name that is
\* a key, neither fails with that error.
C5_NotFoundIffUnknownName ==
    (IsCall("random_joke_from_dataset") \/ IsCall("top_jokes_from_dataset"))
    => IF call.dataset_name \in DOMAIN joke_datasets
       THEN err.type # "ValueError"
       ELSE err = ValueError(call.dataset_name) /\ result = NoResult

\* a random joke asked of a dataset the store does not have, the store not empty
C5_Witness ==
    /\ IsCall("random_joke_from_dataset")
    /\ call.dataset_name = "missing"
    /\ DOMAIN joke_datasets = StoreNames
    /\ err = ValueError("missing")

\* C6: randomFromDataset of a dataset of the store returns an element of that
\* dataset's sequence when the sequence is not empty and fails when it is
\* empty; and every element of a non-empty dataset is a possible outcome.
C6_RandomIsMemberOrError ==
    /\ (IsCall("random_joke_from_dataset") /\ call.dataset_name \in DOMAIN joke_datasets)
       => IF joke_datasets[call.dataset_name] = <<>>
          THEN err # NoError /\ result = NoResult
          ELSE err = NoError /\ \E i \in DOMAIN joke_datasets[call.dataset_name] :
                                    result = joke_datasets[call.dataset_name][i]
    /\ call = Idle
       => \A d \in DOMAIN joke_datasets : \A i \in DOMAIN joke_datasets[d] :
              ENABLED (random_joke_from_dataset(d) /\ result' = joke_datasets[d][i] /\ err' = NoError)

\* the second joke of a dataset drawn, a joke no other dataset has
C6_Witness ==
    /\ IsCall("random_joke_from_dataset")
    /\ DOMAIN joke_datasets = StoreNames
    /\ call.dataset_name = "reddit_jokes"
    /\ err = NoError
    /\ Len(joke_datasets["reddit_jokes"]) >= 2
    /\ result = joke_datasets["reddit_jokes"][2]
    /\ joke_datasets["stupidstuff"] # <<>>
    /\ \A i \in DOMAIN joke_datasets["stupidstuff"] : joke_datasets["stupidstuff"][i] # result

\* C7: topN of a dataset of the store with a negative n fails and returns no
\* records.
C7_NegativeTopNFails ==
    (/\ IsCall("top_jokes_from_dataset")
     /\ call.dataset_name \in DOMAIN joke_datasets
     /\ call.top_n < 0)
    => (err # NoError /\ result = NoResult)

RECURSIVE SumOfLengths(_, _)
SumOfLengths(store, names) ==
    IF names = {} THEN 0
    ELSE LET n == CHOOSE x \in names : TRUE
         IN  Len(store[n]) + SumOfLengths(store, names \ {n})

\* C8: allSortedByScore(descending) is the stable sort by score of the
\* concatenation of the datasets in the store's iteration order: a permutation
\* of the concatenation, as long as the sum of the datasets' lengths, scores
\* non-increasing (descending) or non-decreasing (ascending), and records of
\* equal score in the order they have in the concatenation.
C8_AllSortedIsStableSortOfConcatenation ==
    IsCall("all_jokes_sorted_by_score")
    => LET all == AllJokes(key_order)
       IN  /\ err = NoError
           /\ Len(result) = SumOfLengths(joke_datasets, DOMAIN joke_datasets)
           /\ Len(all) = Len(result)
           /\ \E p \in Permutations(DOMAIN all) :
                  /\ \A i \in DOMAIN result : result[i] = all[p[i]]
                  /\ \A i, j \in DOMAIN result :
                         i < j => \/ (IF call.reverse THEN result[i].score > result[j].score
                                                      ELSE result[i].score < result[j].score)
                                  \/ result[i].score = result[j].score /\ p[i] < p[j]

\* a descending sort of two datasets that moves a joke of the second dataset
\* before a joke of the first, and has two jokes of the same score from
\* different datasets
C8_Witness ==
    /\ IsCall("all_jokes_sorted_by_score")
    /\ call.reverse
    /\ Len(key_order) = 2
    /\ joke_datasets[key_order[1]] # <<>>
    /\ joke_datasets[key_order[2]] # <<>>
    /\ result # AllJokes(key_order)
    /\ \E i \in DOMAIN joke_datasets[key_order[1]], j \in DOMAIN joke_datasets[key_order[2]] :
           joke_datasets[key_order[1]][i].score = joke_datasets[key_order[2]][j].score

\* C9: countByDataset() has the keys of the store, each mapped to the length
\* of its sequence, a dataset without records included and mapped to 0.
C9_CountHasEveryDataset ==
    IsCall("joke_count_by_dataset")
    => /\ err = NoError
       /\ DOMAIN result = DOMAIN joke_datasets
       /\ \A d \in DOMAIN joke_datasets : result[d] = Len(joke_datasets[d])

\* the counts of a store with an empty dataset and one that is not
C9_Witness ==
    /\ IsCall("joke_count_by_dataset")
    /\ DOMAIN result = StoreNames
    /\ result["reddit_jokes"] = 0
    /\ result["stupidstuff"] > 1

\* C10: no call, failed or not, changes the store: the dataset names, their
\* order and each dataset's records in their order stay what they were.
C10_StoreNeverChanges ==
    [][joke_datasets' = joke_datasets /\ key_order' = key_order]_vars

\* topN has returned a whole dataset in another order than the stored one
C10_Witness ==
    /\ IsCall("top_jokes_from_dataset")
    /\ call.dataset_name \in DOMAIN joke_datasets
    /\ err = NoError
    /\ Len(result) = Len(joke_datasets[call.dataset_name])
    /\ result # joke_datasets[call.dataset_name]

====
